---------------------------- MODULE Spec2Model ----------------------------
(***************************************************************************)
(* A model of fledermaus' document pipeline (src/src/core.js): config      *)
(* overlay merging, page parsing, the filter / order / group query layer,  *)
(* pagination, context assembly and page generation.                       *)
(*                                                                         *)
(* JavaScript values are tagged records.  A mapping (a plain object) is a  *)
(* function from its own keys to values; a key that is missing reads as    *)
(* Undef, as in JavaScript.  Text the code takes apart or puts together    *)
(* (urls, content, patterns) is a sequence of one-character strings.       *)
(***************************************************************************)
EXTENDS Integers, Sequences, FiniteSets, TLC

VARIABLES
    pc,           \* the call the caller is at ("loadConfig", "paginate", ...), "map"
                  \* inside generatePages, "done" once the call is over
    configFiles,  \* the configs folder: file name (without .yml) -> parsed YAML mapping
    documents,    \* the document list handed to the query layer / paginator / generator
    loaded,       \* the caller's input (document list, arguments) as it was before any call
    args,         \* the remaining arguments of the call under way
    result,       \* what the last call gave back: [kind |-> "none" | "return" | "throw", ...]
    idx,          \* generatePages: number of documents mapped so far
    pages,        \* generatePages: pages generated so far by documents.map
    renderLog     \* every invocation of a template renderer, in order

vars == <<pc, configFiles, documents, loaded, args, result, idx, pages, renderLog>>

-----------------------------------------------------------------------------
(* JavaScript values *)

Undef == [t |-> "undefined"]
Null == [t |-> "null"]
Str(s) == [t |-> "string", s |-> s]
Num(n) == [t |-> "number", n |-> n]
\* a function of `length` declared parameters
Fn(f, length) == [t |-> "function", f |-> f, length |-> length]
List(l) == [t |-> "array", l |-> l]
Map(m) == [t |-> "object", m |-> m]

EmptyMap == [k \in {} |-> Undef]

\* object[key]
Get(object, key) == IF key \in DOMAIN object THEN object[key] ELSE Undef

\* object[key] = value
Put(object, key, value) ==
    [k \in DOMAIN object \cup {key} |-> IF k = key THEN value ELSE object[k]]

\* every mapping with keys among `keys` and values among `values`
Mappings(keys, values) == UNION {[ks -> values] : ks \in SUBSET keys}

\* every list of length at most n over `values`
ListsUpTo(values, n) == UNION {[1..k -> values] : k \in 0..n}

None == [kind |-> "none"]
Return(v) == [kind |-> "return", value |-> v]
Throw(e) == [kind |-> "throw", error |-> e]

-----------------------------------------------------------------------------
(* lodash: _.merge *)

IsObjectLike(v) == v.t \in {"array", "object"}

RECURSIVE baseMerge(_, _)
RECURSIVE mergeArray(_, _)

\* isArrayLike(value) ? arrayCopy(value) : []  (lodash 3, the version that has
\* _.sortByOrder and _.pairs: whatever has a length is array-like, so a string is
\* copied as the array of its characters, a function as `length` undefined entries)
arrayLikeCopy(value) ==
    CASE value.t = "string" -> [i \in 1..Len(value.s) |-> Str(<<value.s[i]>>)]
      [] value.t = "function" -> [i \in 1..value.length |-> Undef]
      [] OTHER -> <<>>

\* baseMergeDeep: an array source value is merged into the destination's array
\* (or the array copy of its array-like value, or []), a plain-object source
\* value into the destination's plain object (or {})
baseMergeDeep(value, srcValue) ==
    IF srcValue.t = "array"
    THEN List(mergeArray(IF value.t = "array" THEN value.l ELSE arrayLikeCopy(value),
                         srcValue.l))
    ELSE Map(baseMerge(IF value.t = "object" THEN value.m ELSE EmptyMap, srcValue.m))

\* the destination's value at one key after a source value is merged over it
mergeValue(value, srcValue) ==
    IF IsObjectLike(srcValue) THEN baseMergeDeep(value, srcValue)
    ELSE IF srcValue # Undef THEN srcValue
    ELSE value

\* baseMerge with an array source: index by index over the source's indexes
mergeArray(object, source) ==
    [i \in 1..(IF Len(object) > Len(source) THEN Len(object) ELSE Len(source)) |->
        IF i > Len(source) THEN object[i]
        ELSE mergeValue(IF i <= Len(object) THEN object[i] ELSE Undef, source[i])]

\* baseMerge with an object source: key by key over the source's keys
baseMerge(object, source) ==
    [k \in DOMAIN object \cup {j \in DOMAIN source : source[j] # Undef} |->
        IF k \in DOMAIN source THEN mergeValue(Get(object, k), source[k])
        ELSE object[k]]

\* _.merge(object, s1, s2)
merge3(object, s1, s2) == baseMerge(baseMerge(object, s1), s2)

-----------------------------------------------------------------------------
(* Config loader *)

MaxListLen == 2
MaxConfigFiles == 2

ConfigScalars == {Str(<<"x">>), Str(<<"y">>)}
ConfigValues ==
    ConfigScalars
    \cup {List(l) : l \in ListsUpTo(ConfigScalars, MaxListLen)}
    \cup {Map(m) : m \in Mappings({"p"}, ConfigScalars)}
ConfigKeys == {"theme", "title"}
Configs == Mappings(ConfigKeys, ConfigValues)
ConfigNames == {"base", "en", "ru"}

\* readConfigFiles: base.yml fills `base`, every other file a language overlay
readConfigFiles(files) ==
    [base |-> IF "base" \in DOMAIN files THEN files["base"] ELSE EmptyMap,
     langs |-> [name \in DOMAIN files \ {"base"} |-> files[name]]]

\* mergeConfigs: the reduce starts from baseConfig = {base} and adds one key per language
mergeConfigs(configs) ==
    LET baseConfig == [k \in {"base"} |-> configs.base]
    IN  IF DOMAIN configs.langs = {} THEN baseConfig
        ELSE [k \in {"base"} \cup DOMAIN configs.langs |->
                IF k \in DOMAIN configs.langs
                THEN merge3(EmptyMap, configs.base, configs.langs[k])
                ELSE baseConfig[k]]

loadConfig(files) == mergeConfigs(readConfigFiles(files))

ConfigInit ==
    /\ pc = "loadConfig"
    /\ \E names \in {ns \in SUBSET ConfigNames : Cardinality(ns) <= MaxConfigFiles} :
            configFiles \in [names -> Configs]
    /\ documents = <<>> /\ loaded = <<>> /\ args = EmptyMap
    /\ result = None /\ idx = 0 /\ pages = <<>> /\ renderLog = <<>>

LoadConfig ==
    /\ pc = "loadConfig"
    /\ result' = Return(loadConfig(configFiles))
    /\ pc' = "done"
    /\ UNCHANGED <<configFiles, documents, loaded, args, idx, pages, renderLog>>

ConfigNext == LoadConfig
SpecConfig == ConfigInit /\ [][ConfigNext]_vars

Languages == DOMAIN configFiles \ {"base"}
BaseFile == IF "base" \in DOMAIN configFiles THEN configFiles["base"] ELSE EmptyMap

\* C1: without language overlays the loaded config has exactly the key `base`;
\* with overlays its keys are exactly the language codes, with no top-level `base`.
C1_ConfigKeys ==
    pc = "done" =>
        DOMAIN result.value = (IF Languages = {} THEN {"base"} ELSE Languages)

\* the overlay merge as the specification words it, for one key of one language:
\* b is the base's value, o the overlay's, r the merged config's
OverlayAsSpecified(b, o, r) ==
    /\ o = Undef => r = b
    /\ b = Undef => r = o
    /\ (b.t = "string" /\ o.t = "string") => r = o
    /\ (b.t = "array" /\ o.t = "array") => r = o
    /\ (b.t = "object" /\ o.t = "object") =>
            /\ r.t = "object"
            /\ DOMAIN r.m = DOMAIN b.m \cup DOMAIN o.m
            /\ \A k \in DOMAIN r.m :
                    r.m[k] = (IF k \in DOMAIN o.m THEN o.m[k] ELSE b.m[k])

\* C6: in every language's merged config the overlay wins a scalar conflict,
\* mappings merge key by key, a list present in both is exactly the overlay's
\* list, and a key of only one side is carried over unchanged.
C6_OverlayMerge ==
    pc = "done" =>
        \A lang \in Languages : \A key \in ConfigKeys :
            OverlayAsSpecified(Get(BaseFile, key), Get(configFiles[lang], key),
                               Get(result.value[lang], key))

-----------------------------------------------------------------------------
(* Text *)

DigitChars == <<"0", "1", "2", "3", "4", "5", "6", "7", "8", "9">>

\* String(n) of a non-negative integer, as template literals and + render it
RECURSIVE NumberToString(_)
NumberToString(n) ==
    IF n < 10 THEN <<DigitChars[n + 1]>>
    ELSE NumberToString(n \div 10) \o <<DigitChars[(n % 10) + 1]>>

\* !value
Falsy(v) ==
    \/ v.t \in {"undefined", "null"}
    \/ v.t = "string" /\ v.s = <<>>
    \/ v.t = "number" /\ v.n = 0

-----------------------------------------------------------------------------
(* Paginator *)

MaxDocs == 4
MaxPerPage == 3

DocPool == {[sourcePath |-> Str(<<c>>)] : c \in {"a", "b", "c"}}

\* getPageNumberUrl: `${urlPrefix}/page/${pageNumber}`
getPageNumberUrl(urlPrefix, pageNumber) ==
    urlPrefix \o <<"/", "p", "a", "g", "e", "/">> \o NumberToString(pageNumber)

\* url.replace(/^\//, '')
stripLeadingSlash(url) ==
    IF Len(url) > 0 /\ url[1] = "/" THEN SubSeq(url, 2, Len(url)) ELSE url

\* documents.slice(begin, end), begin and end counted from 0
slice(list, begin, end) ==
    SubSeq(list, begin + 1, IF end < Len(list) THEN end ELSE Len(list))

\* Math.ceil(n / k) for n >= 0 and k > 0
ceilDivFloor(n, k) == n \div k
ceilDiv(n, k) == IF n % k = 0 THEN n \div k ELSE (n \div k) + 1

\* the record the map callback of paginate builds for one page number (from 1)
paginatePageAlwaysNext(docs, options, totalPages, pageNumber) ==
    LET urlPrefix == options.urlPrefix.s
        perPage == options.documentsPerPage.n
        url == getPageNumberUrl(urlPrefix, pageNumber)
        begin == (pageNumber - 1) * perPage
    IN  [previousUrl |-> IF pageNumber > 1
                         THEN Str(getPageNumberUrl(urlPrefix, pageNumber - 1)) ELSE Null,
         nextUrl |-> IF pageNumber <= totalPages
                     THEN Str(getPageNumberUrl(urlPrefix, pageNumber + 1)) ELSE Null,
         sourcePath |-> Str(stripLeadingSlash(url)),
         documents |-> List(slice(docs, begin, begin + perPage)),
         layout |-> options.layout,
         url |-> Str(url)]
paginatePage(docs, options, totalPages, pageNumber) ==
    LET urlPrefix == options.urlPrefix.s
        perPage == options.documentsPerPage.n
        url == getPageNumberUrl(urlPrefix, pageNumber)
        begin == (pageNumber - 1) * perPage
    IN  [previousUrl |-> IF pageNumber > 1
                         THEN Str(getPageNumberUrl(urlPrefix, pageNumber - 1)) ELSE Null,
         nextUrl |-> IF pageNumber < totalPages
                     THEN Str(getPageNumberUrl(urlPrefix, pageNumber + 1)) ELSE Null,
         sourcePath |-> Str(stripLeadingSlash(url)),
         documents |-> List(slice(docs, begin, begin + perPage)),
         layout |-> options.layout,
         url |-> Str(url)]

paginate(docs, options) ==
    IF Falsy(options.urlPrefix) THEN Throw("urlPrefix not specified")
    ELSE IF Falsy(options.documentsPerPage) THEN Throw("documentsPerPage not specified")
    ELSE IF Falsy(options.layout) THEN Throw("layout not specified")
    ELSE LET totalPages == ceilDiv(Len(docs), options.documentsPerPage.n)
         IN  Return([n \in 1..totalPages |-> paginatePage(docs, options, totalPages, n)])

PaginateOptions ==
    [urlPrefix : {Undef, Str(<<>>), Str(<<"/", "b">>)},
     documentsPerPage : {Undef} \cup {Num(k) : k \in 0..MaxPerPage},
     layout : {Undef, Str(<<"l">>)}]

PaginateInit ==
    /\ pc = "paginate"
    /\ documents \in ListsUpTo(DocPool, MaxDocs)
    /\ loaded = documents
    /\ args \in PaginateOptions
    /\ configFiles = EmptyMap
    /\ result = None /\ idx = 0 /\ pages = <<>> /\ renderLog = <<>>

Paginate ==
    /\ pc = "paginate"
    /\ result' = paginate(documents, args)
    /\ pc' = "done"
    /\ UNCHANGED <<configFiles, documents, loaded, args, idx, pages, renderLog>>

PaginateNext == Paginate
SpecPaginate == PaginateInit /\ [][PaginateNext]_vars

PaginateOptionsSet ==
    /\ args.urlPrefix.t = "string" /\ args.urlPrefix.s # <<>>
    /\ args.documentsPerPage.t = "number" /\ args.documentsPerPage.n > 0
    /\ args.layout.t = "string" /\ args.layout.s # <<>>

\* the documents of pages first..Len(ps), one after the other
RECURSIVE ConcatPages(_, _)
ConcatPages(ps, first) ==
    IF first > Len(ps) THEN <<>>
    ELSE ps[first].documents.l \o ConcatPages(ps, first + 1)

\* C2: with n documents and a positive documentsPerPage k, paginate returns
\* exactly ceil(n/k) pages (none for an empty list), page p holds exactly the
\* slice [(p-1)*k, p*k) of the input, and the pages' documents concatenated in
\* page order are the input list.
C2_PaginateSlices ==
    (pc = "done" /\ PaginateOptionsSet) =>
        LET n == Len(documents)
            k == args.documentsPerPage.n
            ps == result.value
        IN  /\ result.kind = "return"
            /\ Len(ps) * k >= n
            /\ (Len(ps) - 1) * k < n
            /\ n = 0 => ps = <<>>
            /\ \A p \in 1..Len(ps) :
                LET d == ps[p].documents.l
                IN  /\ Len(d) = (IF p * k <= n THEN k ELSE n - (p - 1) * k)
                    /\ \A i \in 1..Len(d) : d[i] = documents[(p - 1) * k + i]
            /\ ConcatPages(ps, 1) = documents

C2_Witness ==
    /\ pc = "done" /\ PaginateOptionsSet
    /\ Len(documents) = 3 /\ args.documentsPerPage.n = 2
    /\ result.kind = "return" /\ Len(result.value) = 2
    /\ Len(result.value[2].documents.l) = 1

\* C3: page p has url = urlPrefix + "/page/" + p; previousUrl is null exactly on
\* page 1 and otherwise the url of page p-1; nextUrl is null exactly on the last
\* page and otherwise the url of page p+1; no two pages share a url, so the
\* nextUrl chain from page 1 visits every page once, in order.
C3_PageLinks ==
    (pc = "done" /\ result.kind = "return") =>
        LET ps == result.value
        IN  /\ \A p \in 1..Len(ps) :
                /\ ps[p].url = Str(args.urlPrefix.s \o <<"/", "p", "a", "g", "e", "/">>
                                        \o NumberToString(p))
                /\ (ps[p].previousUrl = Null) <=> (p = 1)
                /\ p > 1 => ps[p].previousUrl = ps[p - 1].url
                /\ (ps[p].nextUrl = Null) <=> (p = Len(ps))
                /\ p < Len(ps) => ps[p].nextUrl = ps[p + 1].url
            /\ \A p, q \in 1..Len(ps) : ps[p].url = ps[q].url => p = q

C3_Witness ==
    /\ pc = "done" /\ result.kind = "return"
    /\ Len(result.value) = 3
    /\ result.value[1].previousUrl = Null
    /\ result.value[2].nextUrl = result.value[3].url
    /\ result.value[3].nextUrl = Null

-----------------------------------------------------------------------------
(* Document query layer *)

MaxQueryDocs == 2
MaxCalls == 2

UndefinedText == <<"u", "n", "d", "e", "f", "i", "n", "e", "d">>
NullText == <<"n", "u", "l", "l">>

\* elements.join(",") over already converted elements
RECURSIVE JoinComma(_)
JoinComma(texts) ==
    IF texts = <<>> THEN <<>>
    ELSE IF Len(texts) = 1 THEN texts[1]
    ELSE texts[1] \o <<",">> \o JoinComma(Tail(texts))

\* String(value): what RegExp.prototype.test and a property key make of a value
RECURSIVE StringOf(_)
StringOf(v) ==
    CASE v.t = "undefined" -> UndefinedText
      [] v.t = "null" -> NullText
      [] v.t = "string" -> v.s
      [] v.t = "number" -> NumberToString(v.n)
      [] v.t = "array" ->
            JoinComma([i \in 1..Len(v.l) |->
                        IF v.l[i].t \in {"undefined", "null"} THEN <<>>
                        ELSE StringOf(v.l[i])])

\* a regular expression without flags: a literal, anchored at the start or not
RegExp(anchored, src) == [t |-> "regexp", anchored |-> anchored, src |-> src]

\* value.test(documentValue)
RegExpTest(re, v) ==
    LET text == StringOf(v)
        n == Len(re.src)
    IN  \E i \in 1..(Len(text) - n + 1) :
            /\ re.anchored => i = 1
            /\ SubSeq(text, i, i + n - 1) = re.src

\* a !== b is false only for equal primitives: two arrays or objects are distinct references
StrictEquals(a, b) == a = b /\ ~IsObjectLike(a)

\* the filter callback: every criterion of `fields` must hold of the document
filterPasses(document, fields) ==
    \A field \in DOMAIN fields :
        LET value == fields[field]
            documentValue == Get(document, field)
        IN  IF value.t = "regexp" THEN RegExpTest(value, documentValue)
            ELSE StrictEquals(documentValue, value)

\* Array.prototype.filter
RECURSIVE filterDocuments(_, _)
filterDocuments(docs, fields) ==
    IF docs = <<>> THEN <<>>
    ELSE (IF filterPasses(Head(docs), fields) THEN <<Head(docs)>> ELSE <<>>)
            \o filterDocuments(Tail(docs), fields)

\* grouped[key].push(document), creating the bucket when it is not there
pushTo(grouped, key, document) ==
    Put(grouped, key, IF key \in DOMAIN grouped THEN Append(grouped[key], document)
                      ELSE <<document>>)

\* value.forEach(subValue => ...)
RECURSIVE pushToEach(_, _, _)
pushToEach(grouped, subValues, document) ==
    IF subValues = <<>> THEN grouped
    ELSE pushToEach(pushTo(grouped, StringOf(Head(subValues)), document),
                    Tail(subValues), document)

\* the reduce callback of gropDocuments
groupStep(grouped, document, field) ==
    LET value == Get(document, field)
    IN  IF value.t = "array" THEN pushToEach(grouped, value.l, document)
        ELSE pushTo(grouped, StringOf(value), document)

\* documents.reduce(..., {}), the documents taken first to last
RECURSIVE gropDocumentsFrom(_, _, _)
gropDocumentsFrom(grouped, docs, field) ==
    IF docs = <<>> THEN grouped
    ELSE gropDocumentsFrom(groupStep(grouped, Head(docs), field), Tail(docs), field)

gropDocuments(docs, field) == gropDocumentsFrom(EmptyMap, docs, field)

\* the characters the model's texts use, in code-unit order
Alphabet == <<",", "-", "/", "0", "1", "2", "3", "4", "5", "6", "7", "8", "9", "|",
              "a", "b", "c", "d", "e", "f", "g", "i", "l", "m", "n", "p", "r", "t", "u", "x">>
CharCode(c) == CHOOSE i \in 1..Len(Alphabet) : Alphabet[i] = c

\* a < b on two strings
RECURSIVE TextLess(_, _)
TextLess(a, b) ==
    IF b = <<>> THEN FALSE
    ELSE IF a = <<>> THEN TRUE
    ELSE IF a[1] = b[1] THEN TextLess(Tail(a), Tail(b))
    ELSE CharCode(a[1]) < CharCode(b[1])

\* lodash baseCompareAscending on strings, arrays, null and undefined: > and <
\* compare the texts of strings and arrays; undefined sorts after null, null
\* after everything else
baseCompareAscending(value, other) ==
    LET texts == value.t \in {"string", "array"} /\ other.t \in {"string", "array"}
        greater == texts /\ TextLess(StringOf(other), StringOf(value))
        less == texts /\ TextLess(StringOf(value), StringOf(other))
    IN  IF StrictEquals(value, other) THEN 0
        ELSE IF \/ greater /\ other # Null
                \/ value = Null /\ other # Undef
                \/ value = Undef
             THEN 1
        ELSE IF \/ less /\ value # Null
                \/ other = Null /\ value # Undef
                \/ other = Undef
             THEN -1
        ELSE 0

\* lodash compareMultiple without the final index tie-break: the first key on
\* which the two documents differ decides, negated for a descending key
RECURSIVE compareMultiple(_, _, _, _)
compareMultiple(object, other, props, orders) ==
    IF props = <<>> THEN 0
    ELSE LET r == baseCompareAscending(Get(object, Head(props)), Get(other, Head(props)))
         IN  IF r # 0 THEN (IF Head(orders) = "asc" THEN r ELSE -r)
             ELSE compareMultiple(object, other, Tail(props), Tail(orders))

\* one document put into an already sorted list, behind every document that
\* does not sort after it (ties keep the input order: object.index - other.index)
RECURSIVE insertSorted(_, _, _, _)
insertSorted(sorted, document, props, orders) ==
    IF sorted = <<>> THEN <<document>>
    ELSE IF compareMultiple(Head(sorted), document, props, orders) > 0
         THEN <<document>> \o sorted
    ELSE <<Head(sorted)>> \o insertSorted(Tail(sorted), document, props, orders)

\* _.sortByOrder(documents, props, orders): a new, stably sorted array
RECURSIVE sortByOrderFrom(_, _, _, _)
sortByOrderFrom(sorted, docs, props, orders) ==
    IF docs = <<>> THEN sorted
    ELSE sortByOrderFrom(insertSorted(sorted, Head(docs), props, orders),
                         Tail(docs), props, orders)
sortByOrder(docs, props, orders) == sortByOrderFrom(<<>>, docs, props, orders)

\* the field a name written in characters stands for
FieldNamed(text) ==
    CASE text = <<"l", "a", "n", "g">> -> "lang"
      [] text = <<"t", "a", "g", "s">> -> "tags"
      [] OTHER -> "other"

\* formatFieldsForSortByOrder(['foo', '-bar']): the names, and "desc" for a
\* name with the descending marker, "asc" otherwise
formatFieldsForSortByOrder(shortFields) ==
    [props |-> [i \in 1..Len(shortFields) |->
                    FieldNamed(IF shortFields[i][1] = "-" THEN Tail(shortFields[i])
                               ELSE shortFields[i])],
     orders |-> [i \in 1..Len(shortFields) |->
                    IF shortFields[i][1] = "-" THEN "desc" ELSE "asc"]]

orderDocuments(docs, shortFields) ==
    LET fields == formatFieldsForSortByOrder(shortFields)
    IN  sortByOrder(docs, fields.props, fields.orders)

(* One call of each operation: what it gives back, and the array it was     *)
(* handed as the call leaves it.                                            *)

\* documents.filter builds a new array
filterDocumentsCall(docs, fields) ==
    [documents |-> docs, result |-> Return(filterDocuments(docs, fields))]

\* _.sortByOrder sorts a copy; Array.prototype.sort would sort documents itself
orderDocumentsCallInPlace(docs, shortFields) ==
    [documents |-> orderDocuments(docs, shortFields),
     result |-> Return(orderDocuments(docs, shortFields))]
orderDocumentsCall(docs, shortFields) ==
    [documents |-> docs, result |-> Return(orderDocuments(docs, shortFields))]

\* documents.reduce pushes the documents into fresh bucket arrays
gropDocumentsCall(docs, field) ==
    [documents |-> docs, result |-> Return(gropDocuments(docs, field))]

\* _.range(...).map builds new records, documents.slice new arrays
paginateCall(docs, options) ==
    [documents |-> docs, result |-> paginate(docs, options)]

QueryDocs ==
    {d \in Mappings({"lang", "tags"},
                    {Str(<<"e", "n">>), Str(<<"r", "u">>), Str(<<"t">>), List(<<>>),
                     List(<<Str(<<"t">>), Str(<<"u">>)>>),
                     List(<<Str(<<"t">>), Str(<<"t">>)>>)}) :
        /\ "lang" \in DOMAIN d => d["lang"] \in {Str(<<"e", "n">>), Str(<<"r", "u">>)}
        /\ "tags" \in DOMAIN d => d["tags"] \notin {Str(<<"e", "n">>), Str(<<"r", "u">>)}}

FilterFields ==
    {f \in Mappings({"lang", "tags"},
                    {Undef, Str(<<"e", "n">>), Str(<<"t">>),
                     RegExp(TRUE, <<"e">>), RegExp(FALSE, <<"n">>)}) :
        "tags" \in DOMAIN f => f["tags"] = Str(<<"t">>)}

OrderFields ==
    {<<>>, <<<<"l", "a", "n", "g">>>>, <<<<"-", "l", "a", "n", "g">>>>,
     <<<<"-", "l", "a", "n", "g">>, <<"t", "a", "g", "s">>>>}

QueryInit ==
    /\ pc = "query"
    /\ documents \in ListsUpTo(QueryDocs, MaxQueryDocs)
    /\ loaded = documents
    /\ args = [op |-> "none"]
    /\ configFiles = EmptyMap
    /\ result = None /\ idx = 0 /\ pages = <<>> /\ renderLog = <<>>

Filter ==
    /\ pc = "query"
    /\ idx < MaxCalls
    /\ \E fields \in FilterFields :
        LET call == filterDocumentsCall(documents, fields)
        IN  /\ documents' = call.documents
            /\ result' = call.result
            /\ args' = [op |-> "filter", fields |-> fields]
    /\ idx' = idx + 1
    /\ UNCHANGED <<pc, configFiles, loaded, pages, renderLog>>

Order ==
    /\ pc = "query"
    /\ idx < MaxCalls
    /\ \E fields \in OrderFields :
        LET call == orderDocumentsCall(documents, fields)
        IN  /\ documents' = call.documents
            /\ result' = call.result
            /\ args' = [op |-> "order", fields |-> fields]
    /\ idx' = idx + 1
    /\ UNCHANGED <<pc, configFiles, loaded, pages, renderLog>>

Group ==
    /\ pc = "query"
    /\ idx < MaxCalls
    /\ \E field \in {"lang", "tags"} :
        LET call == gropDocumentsCall(documents, field)
        IN  /\ documents' = call.documents
            /\ result' = call.result
            /\ args' = [op |-> "group", field |-> field]
    /\ idx' = idx + 1
    /\ UNCHANGED <<pc, configFiles, loaded, pages, renderLog>>

PaginateQuery ==
    /\ pc = "query"
    /\ idx < MaxCalls
    /\ \E options \in {o \in PaginateOptions : ~Falsy(o.urlPrefix) /\ ~Falsy(o.layout)} :
        LET call == paginateCall(documents, options)
        IN  /\ documents' = call.documents
            /\ result' = call.result
            /\ args' = [op |-> "paginate", options |-> options]
    /\ idx' = idx + 1
    /\ UNCHANGED <<pc, configFiles, loaded, pages, renderLog>>

QueryNext == Filter \/ Order \/ Group \/ PaginateQuery
SpecQuery == QueryInit /\ [][QueryNext]_vars

\* how many times a document occurs in a list
Count(document, list) == Cardinality({i \in 1..Len(list) : list[i] = document})

\* how many times a document occurs in all the buckets of a grouping together
RECURSIVE BucketCount(_, _)
BucketCount(grouped, document) ==
    IF DOMAIN grouped = {} THEN 0
    ELSE LET key == CHOOSE k \in DOMAIN grouped : TRUE
         IN  Count(document, grouped[key])
                + BucketCount([k \in DOMAIN grouped \ {key} |-> grouped[k]], document)

\* how many buckets a document belongs in: one per element of a sequence value,
\* one for a scalar value, none when the field is undefined
Multiplicity(document, field) ==
    LET value == Get(document, field)
    IN  IF value = Undef THEN 0
        ELSE IF value.t = "array" THEN Len(value.l)
        ELSE 1

\* C4: the buckets of group, taken together with multiplicity, hold exactly the
\* input documents that have the field defined (once per element of a sequence
\* value, once for a scalar value); a document whose field is undefined is in
\* no bucket.
C4_GroupPartition ==
    args.op = "group" =>
        \A i \in 1..Len(loaded) :
            BucketCount(result.value, loaded[i])
                = Count(loaded[i], loaded) * Multiplicity(loaded[i], args.field)

\* a criterion as the specification words it: a document that lacks the field
\* fails it, pattern or plain value, unless the criterion's value is absent too
PassesAsSpecified(document, fields) ==
    \A field \in DOMAIN fields :
        LET value == fields[field]
            documentValue == Get(document, field)
        IN  IF value = Undef THEN documentValue = Undef
            ELSE IF documentValue = Undef THEN FALSE
            ELSE IF value.t = "regexp" THEN RegExpTest(value, documentValue)
            ELSE StrictEquals(documentValue, value)

RECURSIVE FilterAsSpecified(_, _)
FilterAsSpecified(docs, fields) ==
    IF docs = <<>> THEN <<>>
    ELSE (IF PassesAsSpecified(Head(docs), fields) THEN <<Head(docs)>> ELSE <<>>)
            \o FilterAsSpecified(Tail(docs), fields)

\* C5: the result of filter is, in input order, exactly the documents that
\* satisfy every criterion, where a document lacking a criterion's field never
\* satisfies it (plain value or pattern) unless the criterion's value is absent.
C5_FilterCriteria ==
    args.op = "filter" =>
        result.value = FilterAsSpecified(loaded, args.fields)

\* C8: whatever filter, order, group and paginate calls were made on the list,
\* the list is as it was loaded (length, order, every document's fields), and
\* the last call returned what it returns as the only call on the loaded list.
C8_QueryLeavesInput ==
    /\ documents = loaded
    /\ args.op = "filter" => result = Return(filterDocuments(loaded, args.fields))
    /\ args.op = "order" => result = Return(orderDocuments(loaded, args.fields))
    /\ args.op = "group" => result = Return(gropDocuments(loaded, args.field))
    /\ args.op = "paginate" => result = paginate(loaded, args.options)

C8_Witness ==
    /\ idx = MaxCalls
    /\ args.op = "order"
    /\ result.value # loaded
    /\ documents = loaded

-----------------------------------------------------------------------------
(* Context assembler *)

\* _.merge({}, helpers, { config }, document)
makeContextHelpersLast(document, config, helpers) ==
    baseMerge(baseMerge(baseMerge(EmptyMap, document), [k \in {"config"} |-> config]),
              helpers)
makeContext(document, config, helpers) ==
    baseMerge(baseMerge(baseMerge(EmptyMap, helpers), [k \in {"config"} |-> config]),
              document)

\* one call: the context returned, and the three arguments as the call leaves
\* them (the destination of the merge is a fresh object, not one of them)
makeContextCall(document, config, helpers) ==
    [result |-> Return(makeContext(document, config, helpers)),
     document |-> document, config |-> config, helpers |-> helpers]

HelperValues == {Fn("f", 2), Str(<<"x", "x">>), Map([k \in {"p"} |-> Str(<<"x">>)]),
                 List(<<Str(<<"x">>), Str(<<"x">>)>>)}
DocumentValues == {Undef, Str(<<"y">>), Null, Map([k \in {"p"} |-> Str(<<"y">>)]),
                   Map([k \in {"q"} |-> Str(<<"y">>)]), List(<<Str(<<"y">>)>>)}
SiteConfigs == {Map([k \in {"site"} |-> Str(<<"S">>)]), Map([k \in {"p"} |-> Str(<<"x">>)])}

ContextInit ==
    /\ pc = "makeContext"
    /\ \E helpers \in Mappings({"h", "config"}, HelperValues),
          config \in SiteConfigs \cup {Undef},
          doc \in Mappings({"h", "config"}, DocumentValues),
          title \in {Undef, Str(<<"A">>)} :
            args = [document |-> IF title = Undef THEN doc ELSE Put(doc, "title", title),
                    config |-> config, helpers |-> helpers]
    /\ loaded = args
    /\ documents = <<>> /\ configFiles = EmptyMap
    /\ result = None /\ idx = 0 /\ pages = <<>> /\ renderLog = <<>>

MakeContext ==
    /\ pc = "makeContext"
    /\ LET call == makeContextCall(args.document, args.config, args.helpers)
       IN  /\ result' = call.result
           /\ args' = [document |-> call.document, config |-> call.config,
                       helpers |-> call.helpers]
    /\ pc' = "done"
    /\ UNCHANGED <<configFiles, documents, loaded, idx, pages, renderLog>>

ContextNext == MakeContext
SpecContext == ContextInit /\ [][ContextNext]_vars

\* the keys the context is to have: those of helpers, `config` and those of the
\* document, a key that holds undefined not counted
ContextKeys ==
    DOMAIN loaded.helpers \cup {k \in DOMAIN loaded.document : loaded.document[k] # Undef}
        \cup (IF loaded.config = Undef THEN {} ELSE {"config"})

AsList(value) ==
    CASE value.t = "array" -> value.l
      [] value.t = "string" -> [i \in 1..Len(value.s) |-> Str(<<value.s[i]>>)]
      [] value.t = "function" -> [i \in 1..value.length |-> Undef]
      [] OTHER -> <<>>

\* a value laid over a value of lower precedence: two mappings give the
\* mapping of both sides' keys in which the upper side's keys win; a list gives
\* the list followed by the lower value's entries beyond its length, when that
\* has a length; anything else gives the upper value
LaidOver(upper, lower) ==
    IF upper = Undef THEN lower
    ELSE IF upper.t = "object" /\ lower.t = "object"
         THEN Map([j \in DOMAIN upper.m \cup DOMAIN lower.m |->
                    IF j \in DOMAIN upper.m THEN upper.m[j] ELSE lower.m[j]])
    ELSE IF upper.t = "array"
         THEN List(upper.l \o SubSeq(AsList(lower), Len(upper.l) + 1, Len(AsList(lower))))
    ELSE upper

-----------------------------------------------------------------------------
(* File names (util.js) *)

\* the last position of character c in a text, 0 when it has none
LastIndexOf(text, c) ==
    IF \E i \in 1..Len(text) : text[i] = c
    THEN CHOOSE i \in 1..Len(text) :
            text[i] = c /\ \A j \in (i + 1)..Len(text) : text[j] # c
    ELSE 0

\* where the extension of a file path starts (its last dot, when that lies in
\* the file name), 0 when the path has no extension
ExtensionDot(filepath) ==
    LET dot == LastIndexOf(filepath, ".")
    IN  IF dot > LastIndexOf(filepath, "/") THEN dot ELSE 0

\* removeExtension: the path without its file extension
removeExtension(filepath) ==
    IF ExtensionDot(filepath) = 0 THEN filepath
    ELSE SubSeq(filepath, 1, ExtensionDot(filepath) - 1)

\* getExtension: the file extension, without the dot
getExtension(filepath) ==
    IF ExtensionDot(filepath) = 0 THEN <<>>
    ELSE SubSeq(filepath, ExtensionDot(filepath) + 1, Len(filepath))

-----------------------------------------------------------------------------
(* Page generator *)

MaxGenDocs == 3

MissingLayout(document) ==
    [name |-> "Error", message |-> "Layout not specified",
     sourcePath |-> Get(document, "sourcePath")]

\* generatePage: what it gives back, and the renderer invocations it made.
\* renderers is the list of [extension, render] pairs of the mapping, in
\* insertion order; content is what render(templateFile, context) gave.
generatePageRenderFirst(document, config, helpers, renderers) ==
    LET first == Head(renderers)
        templateFile == StringOf(Get(document, "layout")) \o <<".">> \o first.extension
        context == makeContext(document, config, helpers)
        invocation == [render |-> first.render, templateFile |-> templateFile,
                       context |-> context]
    IN  IF Falsy(Get(document, "layout"))
        THEN [result |-> Throw(MissingLayout(document)), rendered |-> <<invocation>>]
        ELSE [result |-> Return([pagePath |-> removeExtension(document["sourcePath"].s),
                                 content |-> invocation]),
              rendered |-> <<invocation>>]
generatePage(document, config, helpers, renderers) ==
    IF Falsy(Get(document, "layout"))
    THEN [result |-> Throw(MissingLayout(document)), rendered |-> <<>>]
    ELSE LET first == Head(renderers)
             templateFile == document["layout"].s \o <<".">> \o first.extension
             context == makeContext(document, config, helpers)
             invocation == [render |-> first.render, templateFile |-> templateFile,
                            context |-> context]
         IN  [result |-> Return([pagePath |-> removeExtension(document["sourcePath"].s),
                                 content |-> invocation]),
              rendered |-> <<invocation>>]

GenDocs ==
    {d \in Mappings({"sourcePath", "layout"},
                    {Str(<<"a", ".", "m", "d">>), Str(<<"b", "/", "c", ".", "m", "d">>),
                     Str(<<"p">>)}) :
        /\ "sourcePath" \in DOMAIN d /\ d["sourcePath"] # Str(<<"p">>)
        /\ "layout" \in DOMAIN d => d["layout"] = Str(<<"p">>)}

\* at least one template renderer is registered
Renderers ==
    {<<[extension |-> <<"e", "c", "t">>, render |-> "renderEct"]>>,
     <<[extension |-> <<"j", "s", "x">>, render |-> "renderJsx"],
       [extension |-> <<"e", "c", "t">>, render |-> "renderEct"]>>}

GenerateInit ==
    /\ pc = "generatePages"
    /\ documents \in ListsUpTo(GenDocs, MaxGenDocs)
    /\ loaded = documents
    /\ \E renderers \in Renderers :
        args = [config |-> Map([k \in {"site"} |-> Str(<<"S">>)]),
                helpers |-> [k \in {"h"} |-> Fn("f", 1)],
                renderers |-> renderers]
    /\ configFiles = EmptyMap
    /\ result = None /\ idx = 0 /\ pages = <<>> /\ renderLog = <<>>

\* generatePages is called: documents.map starts
GeneratePagesCall ==
    /\ pc = "generatePages"
    /\ pc' = "map"
    /\ UNCHANGED <<configFiles, documents, loaded, args, result, idx, pages, renderLog>>

\* the map callback on the next document: a page more, or the error thrown out
\* of generatePages, the array built so far dropped with it
GeneratePagesStep ==
    /\ pc = "map"
    /\ idx < Len(documents)
    /\ LET call == generatePage(documents[idx + 1], args.config, args.helpers,
                                args.renderers)
       IN  /\ renderLog' = renderLog \o call.rendered
           /\ IF call.result.kind = "throw"
              THEN /\ result' = call.result
                   /\ pc' = "done"
                   /\ UNCHANGED <<idx, pages>>
              ELSE /\ pages' = Append(pages, call.result.value)
                   /\ idx' = idx + 1
                   /\ UNCHANGED <<pc, result>>
    /\ UNCHANGED <<configFiles, documents, loaded, args>>

\* documents.map is through: generatePages returns the pages
GeneratePagesReturn ==
    /\ pc = "map"
    /\ idx = Len(documents)
    /\ result' = Return(pages)
    /\ pc' = "done"
    /\ UNCHANGED <<configFiles, documents, loaded, args, idx, pages, renderLog>>

GenerateNext == GeneratePagesCall \/ GeneratePagesStep \/ GeneratePagesReturn
SpecGenerate == GenerateInit /\ [][GenerateNext]_vars

\* the documents of the list without a layout
WithoutLayout == {i \in 1..Len(documents) : Falsy(Get(documents[i], "layout"))}

-----------------------------------------------------------------------------
(* Document parser *)

MaxBodyLen == 4

\* the first position at which `sep` occurs in a text, 0 when it does not
IndexOf(text, sep) ==
    LET at == {i \in 1..(Len(text) - Len(sep) + 1) :
                    SubSeq(text, i, i + Len(sep) - 1) = sep}
    IN  IF at = {} THEN 0 ELSE CHOOSE i \in at : \A j \in at : i <= j

\* text.split(sep) for a non-empty separator string: every piece between occurrences
RECURSIVE Split(_, _)
Split(text, sep) ==
    LET i == IndexOf(text, sep)
    IN  IF i = 0 THEN <<text>>
        ELSE <<SubSeq(text, 1, i - 1)>> \o Split(SubSeq(text, i + Len(sep), Len(text)), sep)

\* filepathToUrl
filepathToUrl(filepath) ==
    LET url == <<"/">> \o removeExtension(filepath)
        index == <<"/", "i", "n", "d", "e", "x">>
        n == Len(url)
        replaced == IF n >= 6 /\ SubSeq(url, n - 5, n) = index
                    THEN SubSeq(url, 1, n - 6) ELSE url
    IN  IF replaced = <<>> THEN <<"/">> ELSE replaced

\* a content renderer and a field parser of the caller's, by name
ApplyRenderer(render, source) ==
    IF render = "renderMarkdown" THEN <<"p">> \o source ELSE source
ApplyParser(parse, value) ==
    IF parse = "orUntitled" /\ value = Undef THEN Str(<<"u">>) ELSE value

\* renderByType: the renderer registered for the file's extension, or the source as it is
renderByType(source, filepath, renderers) ==
    LET extension == getExtension(filepath)
    IN  IF extension \in DOMAIN renderers
        THEN ApplyRenderer(renderers[extension], source)
        ELSE source

\* parseCustomFields
parseCustomFields(attributes, fieldParsers) ==
    LET parsedAttributes ==
            [name \in DOMAIN fieldParsers |->
                ApplyParser(fieldParsers[name], Get(attributes, name))]
    IN  merge3(EmptyMap, attributes, parsedAttributes)

\* [excerpt, more] = content.split(cutTag): the first two pieces, undefined where
\* there is none; both stay undefined without a cutTag
excerptAndMore(content, cutTag) ==
    IF Falsy(cutTag) THEN <<Undef, Undef>>
    ELSE LET parts == Split(content, cutTag.s)
         IN  <<Str(parts[1]), IF Len(parts) >= 2 THEN Str(parts[2]) ELSE Undef>>

\* parsePage, the source already split by fastmatter into attributes and body
parsePage(source, filepath, options) ==
    LET attributes == parseCustomFields(source.attributes, options.fieldParsers)
        url == filepathToUrl(filepath)
        content == renderByType(source.body, filepath, options.renderers)
        cut == excerptAndMore(content, options.cutTag)
    IN  baseMerge(attributes,
                  [k \in {"sourcePath", "content", "excerpt", "more", "url"} |->
                    CASE k = "sourcePath" -> Str(filepath)
                      [] k = "content" -> Str(content)
                      [] k = "excerpt" -> cut[1]
                      [] k = "more" -> cut[2]
                      [] k = "url" -> Str(url)])

FilePaths ==
    {<<"i", "n", "d", "e", "x", ".", "m", "d">>,
     <<"a", "/", "i", "n", "d", "e", "x", ".", "m", "d">>,
     <<"b", ".", "t", "x", "t">>}

ParseInit ==
    /\ pc = "parsePage"
    /\ \E attributes \in Mappings({"title", "excerpt"}, {Str(<<"f">>)}),
          body \in ListsUpTo({"a", "|"}, MaxBodyLen),
          filepath \in FilePaths,
          renderers \in {EmptyMap, [e \in {<<"m", "d">>} |-> "renderMarkdown"]},
          fieldParsers \in {EmptyMap, [n \in {"title"} |-> "orUntitled"]},
          cutTag \in {Undef, Str(<<"|">>), Str(<<"|", "|">>)} :
            args = [source |-> [attributes |-> attributes, body |-> body],
                    filepath |-> filepath,
                    options |-> [renderers |-> renderers, fieldParsers |-> fieldParsers,
                                 cutTag |-> cutTag]]
    /\ loaded = args
    /\ documents = <<>> /\ configFiles = EmptyMap
    /\ result = None /\ idx = 0 /\ pages = <<>> /\ renderLog = <<>>

ParsePage ==
    /\ pc = "parsePage"
    /\ result' = Return(parsePage(args.source, args.filepath, args.options))
    /\ pc' = "done"
    /\ UNCHANGED <<configFiles, documents, loaded, args, idx, pages, renderLog>>

ParseNext == ParsePage
SpecParse == ParseInit /\ [][ParseNext]_vars

\* C10: with a cutTag that occurs in the rendered content, excerpt is the text
\* before its first occurrence and more all the text after it, so that
\* excerpt + cutTag + more is the content; without a cutTag, or with one that
\* does not occur in the content, the document has neither excerpt nor more.
C10_ExcerptSplit ==
    pc = "done" =>
        LET document == result.value
            content == document["content"].s
            cutTag == args.options.cutTag
            at == IF cutTag = Undef THEN 0 ELSE IndexOf(content, cutTag.s)
        IN  IF at > 0
            THEN /\ Get(document, "excerpt") = Str(SubSeq(content, 1, at - 1))
                 /\ Get(document, "more")
                        = Str(SubSeq(content, at + Len(cutTag.s), Len(content)))
                 /\ document["excerpt"].s \o cutTag.s \o document["more"].s = content
            ELSE /\ Get(document, "excerpt") = Undef
                 /\ Get(document, "more") = Undef

-----------------------------------------------------------------------------
(* The whole pipeline: any one of the calls above *)

Init ==
    \/ ConfigInit
    \/ ParseInit
    \/ QueryInit
    \/ PaginateInit
    \/ ContextInit
    \/ GenerateInit

Next ==
    \/ ConfigNext
    \/ ParseNext
    \/ QueryNext
    \/ PaginateNext
    \/ ContextNext
    \/ GenerateNext

Spec == Init /\ [][Next]_vars

=============================================================================
